---- MODULE Spec2Model ----
(***************************************************************************)
(* jsonapi-data-manager: the Store/Model graph engine of index.js          *)
(* (classes Model and Store, lines 1-402).                                 *)
(*                                                                         *)
(* Models are heap objects (heap[r] is the object with reference r), so    *)
(* that "the same instance" is equality of references.  A JavaScript       *)
(* exception is the field threw of the store state: the statements after   *)
(* the throwing one do not run, the ones before it keep their effect.      *)
(***************************************************************************)
EXTENDS Integers, Sequences, FiniteSets, TLC

\* ------------------------------------------------------------------ bounds
MaxOps == 3
MaxModels == 5

\* ------------------------------------------------------- JavaScript values
\* The id of a model constructed without one (undefined).  As a property key
\* of graph[type] it is the string "undefined"; no id used here is that
\* string, so the key conversion is injective on the ids of the model.
NoId == "undefined"

Types == {"article", "user"}
Ids == {"1", "2", "3"}
AttrNames == {"title"}
RelNames == {"author", "tags"}
Names == AttrNames \cup RelNames

\* A dynamic property this[name] of a Model: undefined, null, an attribute
\* value, one Model reference or an array of Model references.
Undef == [k |-> "undef", v |-> "", refs |-> <<>>]
Null == [k |-> "null", v |-> "", refs |-> <<>>]
Val(s) == [k |-> "val", v |-> s, refs |-> <<>>]
One(r) == [k |-> "one", v |-> "", refs |-> <<r>>]
Many(rs) == [k |-> "many", v |-> "", refs |-> rs]

\* An optional member of a JSON object: <<>> when absent, <<x>> when present.
Absent == <<>>
Some(x) == <<x>>

\* The object {} (links and meta are sets of <<key, value>> pairs).
EmptyObj == {}
EmptyMap == [x \in {} |-> 0]

\* ------------------------------------------------------------ array helpers
IndexOf(seq, x) ==
  IF \E i \in 1..Len(seq) : seq[i] = x
  THEN CHOOSE i \in 1..Len(seq) : seq[i] = x /\ \A j \in 1..(i - 1) : seq[j] # x
  ELSE 0

RemoveAt(seq, i) == SubSeq(seq, 1, i - 1) \o SubSeq(seq, i + 1, Len(seq))

\* Array.prototype.splice(start, 1) with start = indexOf(...) - the JavaScript
\* index, -1 when not found: a negative start counts from the end, so
\* splice(-1, 1) removes the last element.  pos is the 1-based IndexOf.
SpliceAtIndexOf(seq, pos) ==
  IF Len(seq) = 0 THEN seq
  ELSE IF pos = 0 THEN RemoveAt(seq, Len(seq))
  ELSE RemoveAt(seq, pos)

\* ------------------------------------------------------------------- Model
ModelCtor(type, id) ==
  [id |-> id, type |-> type,
   attributes |-> <<>>, dependents |-> <<>>, relationships |-> <<>>,
   props |-> [n \in Names |-> Undef],
   links |-> EmptyObj, meta |-> EmptyObj,
   relationshipLinks |-> [n \in Names |-> Absent],
   relationshipMeta |-> [n \in Names |-> Absent],
   destroyed |-> FALSE, placeHolder |-> FALSE]

\* _addDependence pushing the triple without looking for it first.
AddDependence_AlwaysPushes(deps, type, id, key) ==
  Append(deps, [id |-> id, type |-> type, relation |-> key])

AddDependence(deps, type, id, key) ==
  IF \E i \in 1..Len(deps) :
       deps[i].id = id /\ deps[i].type = type /\ deps[i].relation = key
  THEN deps
  ELSE Append(deps, [id |-> id, type |-> type, relation |-> key])

\* ------------------------------------------------------------------- Store
\* A store state: heap of Models, graph[type][id] -> reference, order[type].
StoreCtor == [heap |-> <<>>, graph |-> EmptyMap, order |-> EmptyMap, threw |-> FALSE]

Find(st, type, id) ==
  IF type \notin DOMAIN st.graph THEN 0
  ELSE IF id \notin DOMAIN st.graph[type] THEN 0
  ELSE st.graph[type][id]

FindAll(st, type) ==
  IF type \notin DOMAIN st.graph THEN <<>>
  ELSE [i \in 1..Len(st.order[type]) |->
          IF st.order[type][i] \in DOMAIN st.graph[type]
          THEN st.graph[type][st.order[type][i]] ELSE 0]

Put(f, key, val) == [x \in DOMAIN f \cup {key} |-> IF x = key THEN val ELSE f[x]]

\* initModel constructing a Model whether or not one is registered.
InitModel_AlwaysNew(st, type, id) ==
  LET g0 == IF type \in DOMAIN st.graph THEN st.graph[type] ELSE EmptyMap
      o0 == IF type \in DOMAIN st.order THEN st.order[type] ELSE <<>>
      heap1 == Append(st.heap, ModelCtor(type, id))
      currentOrderIndex == IndexOf(o0, id)
      o1 == IF currentOrderIndex = 0 THEN Append(o0, id)
            ELSE Append(RemoveAt(o0, currentOrderIndex), id)
  IN [st EXCEPT !.heap = heap1,
                !.graph = Put(st.graph, type, Put(g0, id, Len(heap1))),
                !.order = Put(st.order, type, o1)]

\* initModel leaving the id of a registered Model where it is in the order.
InitModel_NoBump(st, type, id) ==
  LET g0 == IF type \in DOMAIN st.graph THEN st.graph[type] ELSE EmptyMap
      o0 == IF type \in DOMAIN st.order THEN st.order[type] ELSE <<>>
      isNew == id \notin DOMAIN g0
      heap1 == IF isNew THEN Append(st.heap, ModelCtor(type, id)) ELSE st.heap
      g1 == IF isNew THEN Put(g0, id, Len(heap1)) ELSE g0
      o1 == IF IndexOf(o0, id) = 0 THEN Append(o0, id) ELSE o0
  IN [st EXCEPT !.heap = heap1,
                !.graph = Put(st.graph, type, g1),
                !.order = Put(st.order, type, o1)]

\* initModel pushing the id without taking it out of the order first.
InitModel_PushesAgain(st, type, id) ==
  LET g0 == IF type \in DOMAIN st.graph THEN st.graph[type] ELSE EmptyMap
      o0 == IF type \in DOMAIN st.order THEN st.order[type] ELSE <<>>
      isNew == id \notin DOMAIN g0
      heap1 == IF isNew THEN Append(st.heap, ModelCtor(type, id)) ELSE st.heap
      g1 == IF isNew THEN Put(g0, id, Len(heap1)) ELSE g0
  IN [st EXCEPT !.heap = heap1,
                !.graph = Put(st.graph, type, g1),
                !.order = Put(st.order, type, Append(o0, id))]

InitModel(st, type, id) ==
  LET g0 == IF type \in DOMAIN st.graph THEN st.graph[type] ELSE EmptyMap
      o0 == IF type \in DOMAIN st.order THEN st.order[type] ELSE <<>>
      isNew == id \notin DOMAIN g0
      heap1 == IF isNew THEN Append(st.heap, ModelCtor(type, id)) ELSE st.heap
      g1 == IF isNew THEN Put(g0, id, Len(heap1)) ELSE g0
      currentOrderIndex == IndexOf(o0, id)
      o1 == IF currentOrderIndex = 0 THEN Append(o0, id)
            ELSE Append(RemoveAt(o0, currentOrderIndex), id)
  IN [st EXCEPT !.heap = heap1,
                !.graph = Put(st.graph, type, g1),
                !.order = Put(st.order, type, o1)]

\* findOrInit not flagging the Model it creates.
FindOrInit_NoFlag(st, resource) ==
  IF Find(st, resource.type, resource.id) = 0
  THEN InitModel(st, resource.type, resource.id)
  ELSE st

\* findOrInit calling initModel also for a Model that is registered.
FindOrInit_Bumps(st, resource) ==
  LET st1 == InitModel(st, resource.type, resource.id)
      r == st1.graph[resource.type][resource.id]
  IN IF Find(st, resource.type, resource.id) = 0
     THEN [st1 EXCEPT !.heap[r].placeHolder = TRUE]
     ELSE st1

\* findOrInit flagging the Model it resolves whether it created it or not.
FindOrInit_AlwaysFlags(st, resource) ==
  LET st1 == IF Find(st, resource.type, resource.id) = 0
             THEN InitModel(st, resource.type, resource.id)
             ELSE st
      r == st1.graph[resource.type][resource.id]
  IN [st1 EXCEPT !.heap[r].placeHolder = TRUE]

FindOrInit(st, resource) ==
  IF Find(st, resource.type, resource.id) = 0
  THEN LET st1 == InitModel(st, resource.type, resource.id)
           r == st1.graph[resource.type][resource.id]
       IN [st1 EXCEPT !.heap[r].placeHolder = TRUE]
  ELSE st

RECURSIVE MapFindOrInit(_, _, _)
\* relationship.data.map(findOrInit): the store after resolving data[k..],
MapFindOrInit(st, data, k) ==
  IF k > Len(data) THEN st
  ELSE MapFindOrInit(FindOrInit(st, data[k]), data, k + 1)

RECURSIVE AddDependenceAll(_, _, _, _, _)
\* model[key].forEach(record => record._addDependence(model._type, model.id, key))
AddDependenceAll(heap, refs, k, m, key) ==
  IF k > Len(refs) THEN heap
  ELSE AddDependenceAll(
         [heap EXCEPT ![refs[k]].dependents =
            AddDependence(@, heap[m].type, heap[m].id, key)],
         refs, k + 1, m, key)

RECURSIVE SyncAttributes_NoRegister(_, _, _)
\* syncRecord assigning the attributes without listing their names.
SyncAttributes_NoRegister(mdl, attrs, k) ==
  IF k > Len(attrs) THEN mdl
  ELSE SyncAttributes_NoRegister(
         [mdl EXCEPT !.props[attrs[k].name] = attrs[k].value], attrs, k + 1)

RECURSIVE SyncAttributes(_, _, _)
SyncAttributes(mdl, attrs, k) ==
  IF k > Len(attrs) THEN mdl
  ELSE LET key == attrs[k].name
           m1 == IF IndexOf(mdl.attributes, key) = 0
                 THEN [mdl EXCEPT !.attributes = Append(@, key)] ELSE mdl
       IN SyncAttributes([m1 EXCEPT !.props[key] = attrs[k].value], attrs, k + 1)

SyncRelationship(st, m, rel) ==
  LET key == rel.name
      st1 == IF rel.data.k = "absent" THEN st
             ELSE IF IndexOf(st.heap[m].relationships, key) = 0
             THEN [st EXCEPT !.heap[m].relationships = Append(@, key)] ELSE st
      st2 == CASE rel.data.k = "absent" -> st1
               [] rel.data.k = "null" -> [st1 EXCEPT !.heap[m].props[key] = Null]
               [] rel.data.k = "many" ->
                    LET s == MapFindOrInit(st1, rel.data.ids, 1)
                        refs == [i \in 1..Len(rel.data.ids) |->
                                   s.graph[rel.data.ids[i].type][rel.data.ids[i].id]]
                        h1 == [s.heap EXCEPT ![m].props[key] = Many(refs)]
                    IN [s EXCEPT !.heap = AddDependenceAll(h1, refs, 1, m, key)]
               [] rel.data.k = "one" ->
                    LET s == FindOrInit(st1, rel.data.ids[1])
                        r == s.graph[rel.data.ids[1].type][rel.data.ids[1].id]
                        h1 == [s.heap EXCEPT ![m].props[key] = One(r)]
                    IN [s EXCEPT !.heap =
                          [h1 EXCEPT ![r].dependents =
                             AddDependence(@, h1[m].type, h1[m].id, key)]]
      st3 == IF rel.links # Absent
             THEN [st2 EXCEPT !.heap[m].relationshipLinks[key] = rel.links] ELSE st2
  IN IF rel.meta # Absent
     THEN [st3 EXCEPT !.heap[m].relationshipMeta[key] = rel.meta] ELSE st3

RECURSIVE SyncRelationships(_, _, _, _)
SyncRelationships(st, m, rels, k) ==
  IF k > Len(rels) THEN st
  ELSE SyncRelationships(SyncRelationship(st, m, rels[k]), m, rels, k + 1)

\* syncRecord without "delete model._placeHolder".
SyncRecord_KeepsFlag(st, record) ==
  LET st1 == InitModel(st, record.type, record.id)
      m == st1.graph[record.type][record.id]
      mdl1 == SyncAttributes(st1.heap[m], record.attributes, 1)
      mdl2 == IF record.links # Absent THEN [mdl1 EXCEPT !.links = record.links[1]] ELSE mdl1
      mdl3 == IF record.meta # Absent THEN [mdl2 EXCEPT !.meta = record.meta[1]] ELSE mdl2
  IN SyncRelationships([st1 EXCEPT !.heap[m] = mdl3], m, record.relationships, 1)

\* syncRecord replacing what the Model holds by what the record holds.
SyncRecord_Replaces(st, record) ==
  LET st1 == InitModel(st, record.type, record.id)
      m == st1.graph[record.type][record.id]
      mdl0 == [st1.heap[m] EXCEPT !.placeHolder = FALSE, !.attributes = <<>>,
                                  !.relationships = <<>>,
                                  !.props = [n \in Names |-> Undef]]
      mdl1 == SyncAttributes(mdl0, record.attributes, 1)
      mdl2 == IF record.links # Absent THEN [mdl1 EXCEPT !.links = record.links[1]]
              ELSE mdl1
      mdl3 == IF record.meta # Absent THEN [mdl2 EXCEPT !.meta = record.meta[1]]
              ELSE mdl2
  IN SyncRelationships([st1 EXCEPT !.heap[m] = mdl3], m, record.relationships, 1)

\* syncRecord adding the record's links and meta to those the Model has.
SyncRecord_MergesLinks(st, record) ==
  LET st1 == InitModel(st, record.type, record.id)
      m == st1.graph[record.type][record.id]
      mdl1 == SyncAttributes([st1.heap[m] EXCEPT !.placeHolder = FALSE],
                             record.attributes, 1)
      mdl2 == IF record.links # Absent
              THEN [mdl1 EXCEPT !.links = @ \cup record.links[1]] ELSE mdl1
      mdl3 == IF record.meta # Absent
              THEN [mdl2 EXCEPT !.meta = @ \cup record.meta[1]] ELSE mdl2
  IN SyncRelationships([st1 EXCEPT !.heap[m] = mdl3], m, record.relationships, 1)

SyncRecord(st, record) ==
  LET st1 == InitModel(st, record.type, record.id)
      m == st1.graph[record.type][record.id]
      mdl1 == SyncAttributes([st1.heap[m] EXCEPT !.placeHolder = FALSE],
                             record.attributes, 1)
      mdl2 == IF record.links # Absent THEN [mdl1 EXCEPT !.links = record.links[1]] ELSE mdl1
      mdl3 == IF record.meta # Absent THEN [mdl2 EXCEPT !.meta = record.meta[1]] ELSE mdl2
  IN SyncRelationships([st1 EXCEPT !.heap[m] = mdl3], m, record.relationships, 1)

RECURSIVE SyncRecords(_, _, _)
SyncRecords(st, records, k) ==
  IF k > Len(records) THEN st
  ELSE SyncRecords(SyncRecord(st, records[k]), records, k + 1)


\* ---------------------------------------------------- Model: severing links
RECURSIVE RemoveDependenceLoop(_, _, _, _, _)
\* this._dependents.forEach((value, index) => { if (match) splice(index, 1) }):
\* forEach visits index k (1-based here) only while it is below both the
\* length at the start (len) and the current length, and after a splice the
\* following element has moved into the slot just visited.
RemoveDependenceLoop(deps, k, len, type, id) ==
  IF k > len \/ k > Len(deps) THEN deps
  ELSE IF deps[k].id = id /\ deps[k].type = type
  THEN RemoveDependenceLoop(RemoveAt(deps, k), k + 1, len, type, id)
  ELSE RemoveDependenceLoop(deps, k + 1, len, type, id)

RemoveDependence(deps, type, id) == RemoveDependenceLoop(deps, 1, Len(deps), type, id)

RECURSIVE RemoveFromArrayLoop(_, _, _, _, _, _)
\* this[relationshipName].forEach((value, index) => { if (match) splice(index, 1) })
RemoveFromArrayLoop(heap, refs, k, len, type, id) ==
  IF k > len \/ k > Len(refs) THEN refs
  ELSE IF heap[refs[k]].id = id /\ heap[refs[k]].type = type
  THEN RemoveFromArrayLoop(heap, RemoveAt(refs, k), k + 1, len, type, id)
  ELSE RemoveFromArrayLoop(heap, refs, k + 1, len, type, id)

\* d.removeRelationship(type, id, relationshipName) on the Model d.
RemoveRelationship(st, d, type, id, relationshipName) ==
  LET st1 == [st EXCEPT !.heap[d].dependents = RemoveDependence(@, type, id)]
      v == st1.heap[d].props[relationshipName]
  IN CASE v.k = "many" ->
            [st1 EXCEPT !.heap[d].props[relationshipName] =
               Many(RemoveFromArrayLoop(st1.heap, v.refs, 1, Len(v.refs), type, id))]
       [] v.k \in {"undef", "null"} ->
            \* this[relationshipName].id of undefined or null: TypeError
            [st1 EXCEPT !.threw = TRUE]
       [] v.k = "one" ->
            IF st1.heap[v.refs[1]].id = id
            THEN [st1 EXCEPT !.heap[d].props[relationshipName] = Null]
            ELSE st1
       [] v.k = "val" ->
            \* the id of a string is undefined
            IF id = NoId
            THEN [st1 EXCEPT !.heap[d].props[relationshipName] = Null]
            ELSE st1

\* ---------------------------------------------------------- Store.destroy
RECURSIVE DestroyLoop(_, _, _, _)
\* model._dependents.forEach(dependent =>
\*   this.graph[dependent.type][dependent.id].removeRelationship(...))
DestroyLoop(st, m, k, len) ==
  IF st.threw \/ k > len \/ k > Len(st.heap[m].dependents) THEN st
  ELSE LET dependent == st.heap[m].dependents[k]
       IN IF dependent.type \notin DOMAIN st.graph
          THEN [st EXCEPT !.threw = TRUE]
          ELSE IF dependent.id \notin DOMAIN st.graph[dependent.type]
          THEN [st EXCEPT !.threw = TRUE]
          ELSE DestroyLoop(
                 RemoveRelationship(st, st.graph[dependent.type][dependent.id],
                                    st.heap[m].type, st.heap[m].id, dependent.relation),
                 m, k + 1, len)

\* destroy(model); model = 0 stands for null or undefined.
DestroyModel(st, m) ==
  IF m = 0 THEN [st EXCEPT !.threw = TRUE]
  ELSE
    LET st1 == [st EXCEPT !.heap[m].destroyed = TRUE]
        st2 == DestroyLoop(st1, m, 1, Len(st1.heap[m].dependents))
        type == st.heap[m].type
        id == st.heap[m].id
    IN IF st2.threw THEN st2
       ELSE IF type \notin DOMAIN st2.graph THEN [st2 EXCEPT !.threw = TRUE]
       ELSE LET g1 == [x \in DOMAIN st2.graph[type] \ {id} |-> st2.graph[type][x]]
                st3 == [st2 EXCEPT !.graph[type] = g1]
            IN IF type \notin DOMAIN st3.order THEN [st3 EXCEPT !.threw = TRUE]
               ELSE [st3 EXCEPT !.order[type] =
                       SpliceAtIndexOf(@, IndexOf(@, id))]

\* ----------------------------------------------------------- Store.reset
\* reset emptying only the order lists.
ResetStore_KeepsGraph(st) == [st EXCEPT !.order = EmptyMap]

\* reset also emptying the Models it drops.
ResetStore_Invalidating(st) ==
  [st EXCEPT !.graph = EmptyMap, !.order = EmptyMap,
             !.heap = [r \in 1..Len(st.heap) |-> ModelCtor(st.heap[r].type, st.heap[r].id)]]

ResetStore(st) == [st EXCEPT !.graph = EmptyMap, !.order = EmptyMap]

\* ------------------------------------------------------------- Store.sync
NoRet == [kind |-> "none", hasData |-> FALSE, isArray |-> FALSE, data |-> <<>>,
          meta |-> Absent, links |-> Absent, jsonapi |-> Absent, errors |-> Absent]

\* The response object of sync before data is added.
SyncResponse(payload) ==
  [NoRet EXCEPT !.kind = "response", !.meta = payload.meta,
                !.links = payload.links, !.jsonapi = payload.jsonapi]

\* sync going on to data and included when the document has errors.
SyncedRecords_IgnoresErrors(payload) ==
  IF payload.data.k = "absent" THEN <<>>
  ELSE (IF payload.included # Absent THEN payload.included[1] ELSE <<>>)
       \o payload.data.recs

\* The records sync(payload) hands to syncRecord, in the order it does.
\* sync syncing each (type, id) of data once, at its first record.
SyncedRecords_OncePerId(payload) ==
  IF payload.errors # Absent THEN <<>>
  ELSE IF payload.data.k = "absent" THEN <<>>
  ELSE LET recs == payload.data.recs
           first == {k \in 1..Len(recs) :
                       \A j \in 1..(k - 1) :
                         ~(recs[j].type = recs[k].type /\ recs[j].id = recs[k].id)}
           Pick[k \in 0..Len(recs)] ==
             IF k = 0 THEN <<>>
             ELSE IF k \in first THEN Append(Pick[k - 1], recs[k]) ELSE Pick[k - 1]
       IN (IF payload.included # Absent THEN payload.included[1] ELSE <<>>)
          \o Pick[Len(recs)]

SyncedRecords(payload) ==
  IF payload.errors # Absent THEN <<>>
  ELSE IF payload.data.k = "absent" THEN <<>>
  ELSE (IF payload.included # Absent THEN payload.included[1] ELSE <<>>)
       \o payload.data.recs

\* The store after sync(payload, {topLevel}).
SyncStore(st, payload) == SyncRecords(st, SyncedRecords(payload), 1)

\* sync returning the response object whatever the option topLevel says.
SyncReturn_AlwaysResponse(st, payload, topLevel) ==
  IF payload.errors # Absent
  THEN [SyncResponse(payload) EXCEPT !.errors = payload.errors]
  ELSE IF payload.data.k = "absent"
  THEN [NoRet EXCEPT !.kind = "models", !.hasData = TRUE, !.isArray = TRUE]
  ELSE [SyncResponse(payload) EXCEPT
          !.hasData = TRUE, !.isArray = (payload.data.k = "many"),
          !.data = [i \in 1..Len(payload.data.recs) |->
                      st.graph[payload.data.recs[i].type][payload.data.recs[i].id]]]

\* The value sync(payload, {topLevel}) returns, st being the store after it.
SyncReturn(st, payload, topLevel) ==
  IF payload.errors # Absent
  THEN [SyncResponse(payload) EXCEPT !.errors = payload.errors]
  ELSE IF payload.data.k = "absent"
  THEN [NoRet EXCEPT !.kind = "models", !.hasData = TRUE, !.isArray = TRUE]
  ELSE LET refs == [i \in 1..Len(payload.data.recs) |->
                      st.graph[payload.data.recs[i].type][payload.data.recs[i].id]]
           response == [SyncResponse(payload) EXCEPT
                          !.hasData = TRUE, !.isArray = (payload.data.k = "many"),
                          !.data = refs]
       IN IF topLevel THEN response
          ELSE [NoRet EXCEPT !.kind = IF payload.data.k = "many" THEN "models" ELSE "model",
                             !.hasData = TRUE, !.isArray = (payload.data.k = "many"),
                             !.data = refs]


\* ------------------------------------------------- documents given to sync
Linkage(type, id) == [type |-> type, id |-> id]
DataAbsent == [k |-> "absent", ids |-> <<>>]
DataNull == [k |-> "null", ids |-> <<>>]
DataOne(l) == [k |-> "one", ids |-> <<l>>]
DataMany(ls) == [k |-> "many", ids |-> ls]
Relationship(name, data) == [name |-> name, data |-> data, links |-> Absent, meta |-> Absent]
\* A member of attributes: its value is the JavaScript value assigned as is.
Attribute(name, value) == [name |-> name, value |-> Val(value)]
Resource(type, id, attributes, relationships) ==
  [type |-> type, id |-> id, attributes |-> attributes,
   relationships |-> relationships, links |-> Absent, meta |-> Absent]
NoData == [k |-> "absent", recs |-> <<>>]
Document(data) ==
  [data |-> data, included |-> Absent, meta |-> Absent, links |-> Absent,
   jsonapi |-> Absent, errors |-> Absent]
Single(record) == Document([k |-> "one", recs |-> <<record>>])
Array(records) == Document([k |-> "many", recs |-> records])

\* ------------------------------------------- Model: serialize and setters
\* obj[key] = value on an object kept as the sequence of its members, in
\* insertion order: a key that is there keeps its place.
ObjPut(obj, key, member) ==
  IF \E i \in 1..Len(obj) : obj[i].name = key
  THEN [i \in 1..Len(obj) |-> IF obj[i].name = key THEN member ELSE obj[i]]
  ELSE Append(obj, member)

\* The options of serialize: each a list of names, or absent.
NoOptions == [attributes |-> Absent, relationships |-> Absent,
              links |-> Absent, meta |-> Absent]

\* relationshipIdentifier copying the lists of names of the Model as well.
RelationshipIdentifier_Nested(hp, r) ==
  [type |-> hp[r].type, id |-> hp[r].id,
   attributes |-> hp[r].attributes, relationships |-> hp[r].relationships]

\* relationshipIdentifier(model); a string has neither _type nor id.
RelationshipIdentifier(hp, r) == Linkage(hp[r].type, hp[r].id)

\* serialize without the Array.isArray branch: an array has neither _type
\* nor id.
SerializeData_NoArrayBranch(hp, v) ==
  CASE v.k \in {"undef", "null"} -> DataNull
    [] v.k = "val" -> IF v.v = "" THEN DataNull ELSE DataOne(Linkage(NoId, NoId))
    [] v.k = "many" -> DataOne(Linkage(NoId, NoId))
    [] v.k = "one" -> DataOne(RelationshipIdentifier(hp, v.refs[1]))

\* response.data.relationships[key], without links and meta
SerializeData(hp, v) ==
  CASE v.k \in {"undef", "null"} -> DataNull
    [] v.k = "val" -> IF v.v = "" THEN DataNull ELSE DataOne(Linkage(NoId, NoId))
    [] v.k = "many" ->
         DataMany([i \in 1..Len(v.refs) |-> RelationshipIdentifier(hp, v.refs[i])])
    [] v.k = "one" -> DataOne(RelationshipIdentifier(hp, v.refs[1]))

RECURSIVE SerializeAttributes(_, _, _, _)
\* attributes.forEach(key => response.data.attributes[key] = this[key])
SerializeAttributes(mdl, names, k, obj) ==
  IF k > Len(names) THEN obj
  ELSE SerializeAttributes(mdl, names, k + 1,
         ObjPut(obj, names[k], [name |-> names[k], value |-> mdl.props[names[k]]]))

RECURSIVE SerializeRelationships(_, _, _, _, _)
SerializeRelationships(hp, mdl, names, k, obj) ==
  IF k > Len(names) THEN obj
  ELSE LET key == names[k]
       IN SerializeRelationships(hp, mdl, names, k + 1,
            ObjPut(obj, key,
                   [name |-> key, data |-> SerializeData(hp, mdl.props[key]),
                    links |-> mdl.relationshipLinks[key],
                    meta |-> mdl.relationshipMeta[key]]))

\* this._links[key], the string "undefined" standing for a key that is not there
Lookup(obj, key) ==
  IF \E pair \in obj : pair[1] = key
  THEN (CHOOSE pair \in obj : pair[1] = key)[2]
  ELSE "undefined"

\* serialize emitting the whole object whatever keys are asked for.
SerializeObject_Wholesale(obj, keys) ==
  IF obj = EmptyObj THEN Absent ELSE Some(obj)

\* response.data.links / response.data.meta
SerializeObject(obj, keys) ==
  IF obj = EmptyObj THEN Absent
  ELSE IF keys = Absent THEN Some(obj)
  ELSE IF keys[1] # <<>>
  THEN Some({<<keys[1][i], Lookup(obj, keys[1][i])>> : i \in 1..Len(keys[1])})
  ELSE Absent

\* serialize emitting attributes and relationships also when the list of
\* names is empty.
Serialize_EmptyObjects(hp, m, options) ==
  LET mdl == hp[m]
      attributes == IF options.attributes = Absent THEN mdl.attributes
                    ELSE options.attributes[1]
      relationships == IF options.relationships = Absent THEN mdl.relationships
                       ELSE options.relationships[1]
  IN [type |-> mdl.type,
      id |-> IF mdl.id # NoId THEN Some(mdl.id) ELSE Absent,
      attributes |-> Some(SerializeAttributes(mdl, attributes, 1, <<>>)),
      relationships |-> Some(SerializeRelationships(hp, mdl, relationships, 1, <<>>)),
      links |-> SerializeObject(mdl.links, options.links),
      meta |-> SerializeObject(mdl.meta, options.meta)]

\* hp[m].serialize(options): the object under data of the document returned
Serialize(hp, m, options) ==
  LET mdl == hp[m]
      attributes == IF options.attributes = Absent THEN mdl.attributes
                    ELSE options.attributes[1]
      relationships == IF options.relationships = Absent THEN mdl.relationships
                       ELSE options.relationships[1]
  IN [type |-> mdl.type,
      id |-> IF mdl.id # NoId THEN Some(mdl.id) ELSE Absent,
      attributes |-> IF Len(attributes) # 0
                     THEN Some(SerializeAttributes(mdl, attributes, 1, <<>>))
                     ELSE Absent,
      relationships |-> IF Len(relationships) # 0
                        THEN Some(SerializeRelationships(hp, mdl, relationships, 1, <<>>))
                        ELSE Absent,
      links |-> SerializeObject(mdl.links, options.links),
      meta |-> SerializeObject(mdl.meta, options.meta)]

\* The record a serialized object is read as by syncRecord: a member that is
\* absent reads as undefined.
ReadRecord(data) ==
  [type |-> data.type,
   id |-> IF data.id = Absent THEN NoId ELSE data.id[1],
   attributes |-> IF data.attributes = Absent THEN <<>> ELSE data.attributes[1],
   relationships |-> IF data.relationships = Absent THEN <<>> ELSE data.relationships[1],
   links |-> data.links, meta |-> data.meta]

\* The object of a record whose type, id, attributes and relationships are
\* all there.
WriteRecord(record) ==
  [type |-> record.type, id |-> Some(record.id),
   attributes |-> Some(record.attributes),
   relationships |-> Some(record.relationships),
   links |-> record.links, meta |-> record.meta]

\* Nothing serialized.
NoOut == [type |-> "", id |-> Absent, attributes |-> Absent,
            relationships |-> Absent, links |-> Absent, meta |-> Absent]

\* mdl.setAttribute(attributeName, value), value a dynamic property value
SetAttribute(mdl, attributeName, value) ==
  LET m1 == IF mdl.props[attributeName] = Undef
            THEN [mdl EXCEPT !.attributes = Append(@, attributeName)] ELSE mdl
  IN [m1 EXCEPT !.props[attributeName] = value]

\* setRelationship assigning also when the property holds an array.
SetRelationship_AlwaysAssigns(mdl, relationshipName, models) ==
  IF mdl.props[relationshipName] = Undef
  THEN [mdl EXCEPT !.relationships = Append(@, relationshipName),
                   !.props[relationshipName] = models]
  ELSE [mdl EXCEPT !.props[relationshipName] = models]

\* mdl.setRelationship(relationshipName, models); what is pushed on an array
\* is one Model
SetRelationship(mdl, relationshipName, models) ==
  IF mdl.props[relationshipName] = Undef
  THEN [mdl EXCEPT !.relationships = Append(@, relationshipName),
                   !.props[relationshipName] = models]
  ELSE IF mdl.props[relationshipName].k = "many"
  THEN [mdl EXCEPT !.props[relationshipName] = Many(Append(@.refs, models.refs[1]))]
  ELSE [mdl EXCEPT !.props[relationshipName] = models]

\* Tuples over S of length 0..n.
SeqsUpTo(S, n) == UNION {[1..k -> S] : k \in 0..n}

MaxLinks == 2

\* To-one relationships between three resources, two of them sharing a type
\* and two sharing an id, and a resource without id.
OneKeys == {Linkage("article", "1"), Linkage("article", "2"), Linkage("user", "1")}
OneShapes ==
  {[a |-> <<>>, r |-> <<>>], [a |-> <<Attribute("title", "x")>>, r |-> <<>>],
   [a |-> <<>>, r |-> <<Relationship("author", DataNull)>>]}
  \cup {[a |-> <<>>, r |-> <<Relationship("author", DataOne(l))>>] : l \in OneKeys}
OneDocs ==
  {Single(Resource(l.type, l.id, s.a, s.r)) : l \in OneKeys, s \in OneShapes}
  \cup {Single(Resource("article", NoId, <<>>, <<>>)),
        Single(Resource("article", NoId, <<>>,
                        <<Relationship("author", DataOne(Linkage("user", "1")))>>))}

\* To-many relationships, with repeated and self-referencing linkage.
ManyTargets == {Linkage("article", "1"), Linkage("user", "1")}
ManyDocs ==
  {Single(Resource("article", "2", <<>>, <<Relationship("tags", DataMany(ls))>>)) :
     ls \in SeqsUpTo(ManyTargets, MaxLinks)}
  \cup {Single(Resource("article", "1", <<Attribute("title", "x")>>, <<>>)),
        Single(Resource("article", "1", <<>>,
                        <<Relationship("tags", DataMany(<<Linkage("article", "1")>>))>>)),
        Single(Resource("user", "1", <<>>,
                        <<Relationship("tags", DataMany(<<Linkage("article", "1")>>))>>))}

\* Several resources of one type, in array documents.
Bare(id) == Resource("article", id, <<>>, <<>>)
OrderDocs ==
  {Single(Bare(i)) : i \in Ids}
  \cup {Array(<<Bare(i), Bare(j), Bare(k)>>) : i \in {"3"}, j \in Ids, k \in Ids}
  \cup {Single(Resource("article", "1", <<>>,
                        <<Relationship("author", DataOne(Linkage("article", i)))>>)) :
          i \in {"2", "3"}}
  \cup {Single(Resource("user", "1", <<>>, <<>>))}

\* Documents with top-level members, included resources and errors.
DocA == Resource("article", "1", <<Attribute("title", "x")>>,
                 <<Relationship("author", DataOne(Linkage("user", "1")))>>)
DocB == Resource("article", "2", <<>>, <<>>)
DocU == Resource("user", "1", <<Attribute("title", "y")>>, <<>>)
\* The member named by v, present when t is.
Member(t, v) == IF t = Absent THEN Absent ELSE Some(v)
TopDocs ==
  {[data |-> d, included |-> i, meta |-> Member(t, "m"), links |-> Member(t, "l"),
    jsonapi |-> Member(t, "j"), errors |-> e] :
     d \in {NoData, [k |-> "one", recs |-> <<DocA>>], [k |-> "many", recs |-> <<DocB, DocA>>]},
     i \in {Absent, Some(<<DocU>>)},
     t \in {Absent, Some("t")},
     e \in {Absent, Some("e")}}

Families == {"one", "many", "order", "top"}
\* The documents of the runs that also call find, findAll and initModel.
LookDocs ==
  {Single(Bare("1")),
   Array(<<Bare("3"), Bare("1"), Bare("2")>>),
   Single(Resource("user", "1", <<>>,
                   <<Relationship("author", DataOne(Linkage("article", "1")))>>))}

\* The documents of the runs that call the Model's own methods: a record
\* with an attribute, a to-one and a to-many relationship, one with a null
\* relationship, one with an empty to-many, one without id.
EditDocs ==
  {Single(Resource("article", "1", <<Attribute("title", "x")>>,
                   <<Relationship("author", DataOne(Linkage("user", "1"))),
                     Relationship("tags", DataMany(<<Linkage("article", "2"),
                                                     Linkage("user", "1")>>))>>)),
   Single([Resource("user", "1", <<Attribute("title", "y")>>,
                    <<Relationship("author", DataNull)>>)
             EXCEPT !.links = Some({<<"self", "u">>, <<"next", "v">>}),
                    !.meta = Some({<<"count", "c">>})]),
   Single([Resource("user", "1", <<>>, <<>>)
             EXCEPT !.links = Some({<<"self", "w">>})]),
   Single(Resource("article", "2", <<>>, <<Relationship("tags", DataMany(<<>>))>>)),
   Single(Resource("article", NoId, <<Attribute("title", "x")>>,
                   <<Relationship("author", DataOne(Linkage("user", "1"))),
                     Relationship("tags", DataMany(<<Linkage("article", "2")>>))>>))}

\* The documents of the runs that call the Model's methods on reverse
\* dependencies: two relationships of one Model to the same target, a target
\* twice and at adjacent places in a sequence, a null relationship.
LinkDocs ==
  {Single(Resource("article", "1", <<>>,
                   <<Relationship("author", DataOne(Linkage("user", "1"))),
                     Relationship("tags", DataMany(<<Linkage("user", "1"),
                                                     Linkage("user", "1"),
                                                     Linkage("article", "2")>>))>>)),
   Single(Resource("user", "1", <<>>,
                   <<Relationship("author", DataNull),
                     Relationship("tags", DataMany(<<Linkage("article", "1"),
                                                     Linkage("article", "2"),
                                                     Linkage("article", "1")>>))>>))}
\* The (type, id) these runs pass to the methods.
LinkKeys == {Linkage("article", "1"), Linkage("article", "2"), Linkage("user", "1")}

\* The values setAttribute is called with, undefined among them.
AttrValues == {Undef, Val("z")}
\* The lists of names serialize is asked for.
AttrOptions == {Absent, Some(<<>>), Some(<<"title">>)}
RelOptions == {Absent, Some(<<>>), Some(<<"tags">>), Some(<<"author", "tags">>)}
\* The lists of keys of links and of meta serialize is asked for.
LinkOptions == {Absent, Some(<<>>), Some(<<"self">>), Some(<<"self", "other">>)}
MetaOptions == {Absent, Some(<<"count">>)}
\* The options serialize is called with: names, or keys.
SerializeOptions ==
  {[NoOptions EXCEPT !.attributes = a, !.relationships = r] :
     a \in AttrOptions, r \in RelOptions}
  \cup {[NoOptions EXCEPT !.links = l, !.meta = m] : l \in LinkOptions, m \in MetaOptions}

\* The families whose runs also call sync with the option topLevel.
TopLevels(f) == IF f = "top" THEN BOOLEAN ELSE {FALSE}

Docs(f) ==
  CASE f = "one" -> OneDocs
    [] f = "many" -> ManyDocs
    [] f = "order" -> OrderDocs
    [] f = "top" -> TopDocs
    [] f = "look" -> LookDocs
    [] f = "edit" -> EditDocs
    [] f = "link" -> LinkDocs

\* ------------------------------------------------------------ state machine
VARIABLES
  heap,    \* the Model objects ever constructed, by reference
  graph,   \* Store.graph
  order,   \* Store.order
  top,     \* the Store's snapshot of the last document's top-level members
  last,    \* the last call: operation, arguments, the store before it,
           \* failure, returned value
  recent,  \* per type, the ids synced as a record, by their latest such sync
  nops,    \* number of calls made
  family   \* the family of documents this run syncs

vars == <<heap, graph, order, top, last, recent, nops, family>>

NoTop == [meta |-> Absent, links |-> Absent, jsonapi |-> Absent, errors |-> Absent]
NoDoc == Document(NoData)
NoCall == [op |-> "new", payload |-> NoDoc, topLevel |-> FALSE, model |-> 0,
           type |-> "", id |-> "", name |-> "", value |-> Undef,
           options |-> NoOptions, out |-> NoOut, fresh |-> Absent,
           before |-> StoreCtor, beforeTop |-> NoTop, threw |-> FALSE, ret |-> NoRet]

Store == [heap |-> heap, graph |-> graph, order |-> order, threw |-> FALSE]

Init ==
  /\ heap = StoreCtor.heap
  /\ graph = StoreCtor.graph
  /\ order = StoreCtor.order
  /\ top = NoTop
  /\ last = NoCall
  /\ recent = [t \in Types |-> <<>>]
  /\ nops = 0
  /\ family \in Families

\* A snapshot that keeps the members of earlier documents which the new
\* document lacks.
SyncTop_CarriesOver(payload) ==
  [meta |-> IF payload.meta = Absent THEN top.meta ELSE payload.meta,
   links |-> IF payload.links = Absent THEN top.links ELSE payload.links,
   jsonapi |-> IF payload.jsonapi = Absent THEN top.jsonapi ELSE payload.jsonapi,
   errors |-> IF payload.errors = Absent THEN top.errors ELSE payload.errors]

\* The snapshot Store.sync keeps of the document's top-level members.
SyncTop(payload) ==
  [meta |-> payload.meta, links |-> payload.links,
   jsonapi |-> payload.jsonapi, errors |-> payload.errors]

RECURSIVE Touch(_, _, _)
\* The ids by latest record sync, after records[k..] have been synced.
Touch(rc, records, k) ==
  IF k > Len(records) THEN rc
  ELSE LET t == records[k].type
           i == records[k].id
       IN Touch([rc EXCEPT ![t] = Append(SelectSeq(@, LAMBDA x : x # i), i)],
                records, k + 1)

\* store.sync(payload, {topLevel})
Sync(payload, topLevel) ==
  LET st == SyncStore(Store, payload)
  IN /\ nops < MaxOps
     /\ Len(st.heap) <= MaxModels
     /\ heap' = st.heap
     /\ graph' = st.graph
     /\ order' = st.order
     /\ top' = SyncTop(payload)
     /\ last' = [NoCall EXCEPT !.op = "sync", !.payload = payload,
                               !.topLevel = topLevel, !.before = Store,
                               !.beforeTop = top,
                               !.threw = st.threw,
                               !.ret = SyncReturn(st, payload, topLevel)]
     /\ recent' = Touch(recent, SyncedRecords(payload), 1)
     /\ nops' = nops + 1
     /\ UNCHANGED family

\* store.destroy(model), model a Model the caller holds or (0) null
Destroy(model) ==
  LET st == DestroyModel(Store, model)
  IN /\ nops < MaxOps
     /\ heap' = st.heap
     /\ graph' = st.graph
     /\ order' = st.order
     /\ last' = [NoCall EXCEPT !.op = "destroy", !.model = model,
                               !.before = Store, !.beforeTop = top,
                               !.threw = st.threw]
     /\ recent' = IF model # 0 /\ Find(Store, heap[model].type, heap[model].id) = model
                  THEN [recent EXCEPT ![heap[model].type] =
                          SelectSeq(@, LAMBDA x : x # heap[model].id)]
                  ELSE recent
     /\ nops' = nops + 1
     /\ UNCHANGED <<top, family>>

\* The snapshot after Store.reset.
ResetTop == NoTop

\* store.reset()
Reset ==
  LET st == ResetStore(Store)
  IN /\ nops < MaxOps
     /\ heap' = st.heap
     /\ graph' = st.graph
     /\ order' = st.order
     /\ top' = ResetTop
     /\ last' = [NoCall EXCEPT !.op = "reset", !.before = Store, !.beforeTop = top]
     /\ recent' = [t \in Types |-> <<>>]
     /\ nops' = nops + 1
     /\ UNCHANGED family

\* new Model(type): a Model the caller constructs, without id, outside the store
New(type) ==
  /\ nops < MaxOps
  /\ Len(heap) < MaxModels
  /\ heap' = Append(heap, ModelCtor(type, NoId))
  /\ last' = [NoCall EXCEPT !.op = "new", !.model = Len(heap) + 1,
                            !.before = Store, !.beforeTop = top]
  /\ nops' = nops + 1
  /\ UNCHANGED <<graph, order, top, recent, family>>

Next ==
  \/ \E payload \in Docs(family), topLevel \in TopLevels(family) : Sync(payload, topLevel)
  \/ \E model \in 0..Len(heap) : Destroy(model)
  \/ Reset
  \/ \E type \in Types : New(type)

Spec == Init /\ [][Next]_vars

\* The runs that only call sync.
NextSync ==
  \E payload \in Docs(family), topLevel \in TopLevels(family) : Sync(payload, topLevel)

SpecSync == Init /\ [][NextSync]_vars

\* The value find returns: the Model, or (0) null.
FindReturn(r) ==
  [NoRet EXCEPT !.kind = IF r = 0 THEN "null" ELSE "model",
                !.data = IF r = 0 THEN <<>> ELSE <<r>>]

\* A find that creates the type's map when it is missing.
FindCall_CreatesType(type, id) ==
  /\ nops < MaxOps
  /\ graph' = IF type \in DOMAIN graph THEN graph ELSE Put(graph, type, EmptyMap)
  /\ order' = IF type \in DOMAIN order THEN order ELSE Put(order, type, <<>>)
  /\ last' = [NoCall EXCEPT !.op = "find", !.type = type, !.id = id,
                            !.before = Store, !.beforeTop = top,
                            !.ret = FindReturn(Find(Store, type, id))]
  /\ nops' = nops + 1
  /\ UNCHANGED <<heap, top, recent, family>>

\* store.find(type, id)
FindCall(type, id) ==
  /\ nops < MaxOps
  /\ last' = [NoCall EXCEPT !.op = "find", !.type = type, !.id = id,
                            !.before = Store, !.beforeTop = top,
                            !.ret = FindReturn(Find(Store, type, id))]
  /\ nops' = nops + 1
  /\ UNCHANGED <<heap, graph, order, top, recent, family>>

\* store.findAll(type)
FindAllCall(type) ==
  /\ nops < MaxOps
  /\ last' = [NoCall EXCEPT !.op = "findAll", !.type = type,
                            !.before = Store, !.beforeTop = top,
                            !.ret = [NoRet EXCEPT !.kind = "models", !.isArray = TRUE,
                                                  !.data = FindAll(Store, type)]]
  /\ nops' = nops + 1
  /\ UNCHANGED <<heap, graph, order, top, recent, family>>

\* store.initModel(type, id)
InitModelCall(type, id) ==
  LET st == InitModel(Store, type, id)
  IN /\ nops < MaxOps
     /\ Len(st.heap) <= MaxModels
     /\ heap' = st.heap
     /\ graph' = st.graph
     /\ order' = st.order
     /\ last' = [NoCall EXCEPT !.op = "initModel", !.type = type, !.id = id,
                               !.before = Store, !.beforeTop = top,
                               !.ret = FindReturn(st.graph[type][id])]
     /\ nops' = nops + 1
     /\ UNCHANGED <<top, recent, family>>

\* The runs that call the Store's own methods, lookups included.
InitStore ==
  /\ heap = StoreCtor.heap
  /\ graph = StoreCtor.graph
  /\ order = StoreCtor.order
  /\ top = NoTop
  /\ last = NoCall
  /\ recent = [t \in Types |-> <<>>]
  /\ nops = 0
  /\ family = "look"

NextStore ==
  \/ \E payload \in Docs(family) : Sync(payload, FALSE)
  \/ \E model \in 0..Len(heap) : Destroy(model)
  \/ Reset
  \/ \E type \in Types, id \in Ids \cup {NoId} : FindCall(type, id)
  \/ \E type \in Types : FindAllCall(type)
  \/ \E type \in Types, id \in Ids \cup {NoId} : InitModelCall(type, id)

SpecStore == InitStore /\ [][NextStore]_vars

\* model.setAttribute(name, value) on a Model the caller holds
SetAttributeCall(model, name, value) ==
  /\ nops < MaxOps
  /\ heap' = [heap EXCEPT ![model] = SetAttribute(@, name, value)]
  /\ last' = [NoCall EXCEPT !.op = "setAttribute", !.model = model, !.name = name,
                            !.value = value, !.before = Store, !.beforeTop = top]
  /\ nops' = nops + 1
  /\ UNCHANGED <<graph, order, top, recent, family>>

\* model.setRelationship(name, value): value is null, a Model or an array of
\* Models, and a Model when the property holds an array
SetRelationshipCall(model, name, value) ==
  /\ nops < MaxOps
  /\ heap[model].props[name].k = "many" => value.k = "one"
  /\ heap' = [heap EXCEPT ![model] = SetRelationship(@, name, value)]
  /\ last' = [NoCall EXCEPT !.op = "setRelationship", !.model = model, !.name = name,
                            !.value = value, !.before = Store, !.beforeTop = top]
  /\ nops' = nops + 1
  /\ UNCHANGED <<graph, order, top, recent, family>>

\* model.serialize(options); fresh is the document of the sync this call
\* follows at once, when that sync was into an empty store
SerializeCall(model, options) ==
  /\ nops < MaxOps
  /\ last' = [NoCall EXCEPT !.op = "serialize", !.model = model, !.options = options,
                            !.before = Store, !.beforeTop = top,
                            !.out = Serialize(heap, model, options),
                            !.fresh = IF last.op = "sync" /\ last.before.graph = EmptyMap
                                      THEN Some(last.payload) ELSE Absent]
  /\ nops' = nops + 1
  /\ UNCHANGED <<heap, graph, order, top, recent, family>>

\* The runs that call the Model's own methods on the Models of a store.
InitEdit ==
  /\ heap = StoreCtor.heap
  /\ graph = StoreCtor.graph
  /\ order = StoreCtor.order
  /\ top = NoTop
  /\ last = NoCall
  /\ recent = [t \in Types |-> <<>>]
  /\ nops = 0
  /\ family = "edit"

NextModel ==
  \/ \E payload \in Docs(family) : Sync(payload, FALSE)
  \/ \E model \in 1..Len(heap) : Destroy(model)
  \/ New("user")
  \/ \E model \in 1..Len(heap), name \in AttrNames, value \in AttrValues :
       SetAttributeCall(model, name, value)
  \/ \E model \in 1..Len(heap), name \in RelNames,
         value \in {Null, Many(<<>>)} \cup {One(r) : r \in 1..Len(heap)} :
       SetRelationshipCall(model, name, value)
  \/ \E model \in 1..Len(heap), options \in SerializeOptions :
       SerializeCall(model, options)

SpecModel == InitEdit /\ [][NextModel]_vars

\* model._addDependence(type, id, key)
AddDependenceCall(model, type, id, key) ==
  /\ nops < MaxOps
  /\ heap' = [heap EXCEPT ![model].dependents = AddDependence(@, type, id, key)]
  /\ last' = [NoCall EXCEPT !.op = "addDependence", !.model = model, !.type = type,
                            !.id = id, !.name = key,
                            !.before = Store, !.beforeTop = top]
  /\ nops' = nops + 1
  /\ UNCHANGED <<graph, order, top, recent, family>>

\* model._removeDependence(type, id)
RemoveDependenceCall(model, type, id) ==
  /\ nops < MaxOps
  /\ heap' = [heap EXCEPT ![model].dependents = RemoveDependence(@, type, id)]
  /\ last' = [NoCall EXCEPT !.op = "removeDependence", !.model = model,
                            !.type = type, !.id = id,
                            !.before = Store, !.beforeTop = top]
  /\ nops' = nops + 1
  /\ UNCHANGED <<graph, order, top, recent, family>>

\* model.removeRelationship(type, id, relationshipName)
RemoveRelationshipCall(model, type, id, relationshipName) ==
  LET st == RemoveRelationship(Store, model, type, id, relationshipName)
  IN /\ nops < MaxOps
     /\ heap' = st.heap
     /\ last' = [NoCall EXCEPT !.op = "removeRelationship", !.model = model,
                               !.type = type, !.id = id, !.name = relationshipName,
                               !.before = Store, !.beforeTop = top,
                               !.threw = st.threw]
     /\ nops' = nops + 1
     /\ UNCHANGED <<graph, order, top, recent, family>>

\* The runs that call the Model's methods on reverse dependencies.
InitLinks ==
  /\ heap = StoreCtor.heap
  /\ graph = StoreCtor.graph
  /\ order = StoreCtor.order
  /\ top = NoTop
  /\ last = NoCall
  /\ recent = [t \in Types |-> <<>>]
  /\ nops = 0
  /\ family = "link"

NextLinks ==
  \/ \E payload \in Docs(family) : Sync(payload, FALSE)
  \/ \E model \in 1..Len(heap), l \in LinkKeys, key \in RelNames :
       AddDependenceCall(model, l.type, l.id, key)
  \/ \E model \in 1..Len(heap), l \in LinkKeys :
       RemoveDependenceCall(model, l.type, l.id)
  \/ \E model \in 1..Len(heap), l \in LinkKeys, key \in RelNames :
       RemoveRelationshipCall(model, l.type, l.id, key)

SpecLinks == InitLinks /\ [][NextLinks]_vars


\* ============================================================== properties
Before == last.before
Records == SyncedRecords(last.payload)

\* The (type, id) pairs the records name as relationship linkage.
LinkagesOf(records) ==
  {records[k].relationships[j].data.ids[n] :
     <<k, j, n>> \in {x \in (1..Len(records)) \X (1..MaxLinks + 1) \X (1..MaxLinks + 1) :
        /\ x[2] <= Len(records[x[1]].relationships)
        /\ x[3] <= Len(records[x[1]].relationships[x[2]].data.ids)}}

HasRecordFor(records, type, id) ==
  \E k \in 1..Len(records) : records[k].type = type /\ records[k].id = id

LastRecordFor(records, type, id) ==
  records[CHOOSE k \in 1..Len(records) :
            /\ records[k].type = type /\ records[k].id = id
            /\ \A j \in (k + 1)..Len(records) :
                 ~(records[j].type = type /\ records[j].id = id)]

Refs(v) == {v.refs[i] : i \in 1..Len(v.refs)}

\* A Model with nothing but type and id populated, flagged as placeholder.
BarePlaceholder(mdl) ==
  /\ mdl.placeHolder
  /\ mdl.attributes = <<>>
  /\ mdl.relationships = <<>>
  /\ \A n \in Names : mdl.props[n] = Undef
  /\ mdl.links = EmptyObj
  /\ mdl.meta = EmptyObj

\* C1: a sync leaves every (type, id) that was in the graph at the very
\* instance it had (whether the document names it as data, as included or as
\* linkage, or not at all), and every Model the sync constructs is for a
\* (type, id) that was not in the graph and is the one find returns for it.
C1_IdentityStability ==
  last.op = "sync" =>
    /\ \A t \in DOMAIN Before.graph : \A i \in DOMAIN Before.graph[t] :
         Find(Store, t, i) = Before.graph[t][i]
    /\ \A r \in (Len(Before.heap) + 1)..Len(heap) :
         /\ Find(Before, heap[r].type, heap[r].id) = 0
         /\ Find(Store, heap[r].type, heap[r].id) = r

\* A sync of a record, with linkage, both naming resources already in the store.
C1_Witness ==
  /\ last.op = "sync"
  /\ \E k \in 1..Len(Records) :
       /\ Find(Before, Records[k].type, Records[k].id) # 0
       /\ Find(Store, Records[k].type, Records[k].id)
            = Find(Before, Records[k].type, Records[k].id)
  /\ \E l \in LinkagesOf(Records) :
       /\ Find(Before, l.type, l.id) # 0
       /\ Find(Store, l.type, l.id) = Find(Before, l.type, l.id)

\* C2: linkage that names a (T, I) which is not in the store and has no
\* record in the document leaves at (T, I) a new Model that find returns,
\* flagged as placeholder, with empty attribute and relationship lists; and a
\* Model in that state stays in it through every call that is not a sync of
\* a record for its own (type, id).
C2_PlaceholderCreation ==
  /\ last.op = "sync" =>
       \A l \in LinkagesOf(Records) :
         (Find(Before, l.type, l.id) = 0 /\ ~HasRecordFor(Records, l.type, l.id)) =>
           LET r == Find(Store, l.type, l.id)
           IN /\ r > Len(Before.heap)
              /\ heap[r].type = l.type /\ heap[r].id = l.id
              /\ BarePlaceholder(heap[r])
  /\ \A r \in 1..Len(Before.heap) :
       (/\ BarePlaceholder(Before.heap[r])
        /\ ~(last.op = "sync"
             /\ HasRecordFor(Records, Before.heap[r].type, Before.heap[r].id)))
       => BarePlaceholder(heap[r])

\* A sync has just created a placeholder for a linkage target.
C2_Witness ==
  /\ last.op = "sync"
  /\ \E l \in LinkagesOf(Records) :
       /\ Find(Before, l.type, l.id) = 0
       /\ ~HasRecordFor(Records, l.type, l.id)
       /\ Find(Store, l.type, l.id) > Len(Before.heap)
       /\ heap[Find(Store, l.type, l.id)].placeHolder

\* C3: a sync with a record for a placeholder that is in the store keeps the
\* instance, clears its flag and gives it the record's attributes, which the
\* Models that referenced it (and are not themselves synced) expose through
\* the unchanged reference; and no sync sets the flag on an instance whose
\* flag is clear.
C3_PlaceholderResolution ==
  last.op = "sync" =>
    /\ \A r \in 1..Len(Before.heap) :
         LET t == Before.heap[r].type
             i == Before.heap[r].id
         IN (Before.heap[r].placeHolder /\ Find(Before, t, i) = r
             /\ HasRecordFor(Records, t, i)) =>
              /\ Find(Store, t, i) = r
              /\ ~heap[r].placeHolder
              /\ LET rec == LastRecordFor(Records, t, i)
                 IN \A a \in 1..Len(rec.attributes) :
                      /\ heap[r].props[rec.attributes[a].name] = rec.attributes[a].value
                      /\ IndexOf(heap[r].attributes, rec.attributes[a].name) # 0
              /\ \A h \in 1..Len(Before.heap), n \in Names :
                   (/\ r \in Refs(Before.heap[h].props[n])
                    /\ ~HasRecordFor(Records, Before.heap[h].type, Before.heap[h].id))
                   => heap[h].props[n] = Before.heap[h].props[n]
    /\ \A r \in 1..Len(Before.heap) :
         ~Before.heap[r].placeHolder => ~heap[r].placeHolder

\* A placeholder another Model references has just received its record.
C3_Witness ==
  /\ last.op = "sync"
  /\ \E r \in 1..Len(Before.heap) :
       /\ Before.heap[r].placeHolder
       /\ HasRecordFor(Records, heap[r].type, heap[r].id)
       /\ ~heap[r].placeHolder
       /\ heap[r].attributes # <<>>
       /\ \E h \in 1..Len(heap), n \in Names :
            h # r /\ heap[h].props[n] = One(r) /\ Before.heap[h].props[n] = One(r)

\* The ids of the Models findAll(type) returns that were synced as a record.
FindAllSyncedIds(type) ==
  LET all == FindAll(Store, type)
      synced == SelectSeq(all, LAMBDA r : r # 0 /\ ~heap[r].placeHolder)
  IN [k \in 1..Len(synced) |-> heap[synced[k]].id]

\* C4: in runs that only call sync, the Models of findAll(type) that were
\* synced as a record are in the order of their latest record sync.
C4_MostRecentlySyncedLast ==
  \A t \in Types : FindAllSyncedIds(t) = recent[t]

\* Ids 3, 1, 2 were synced in one array, then 1 again: findAll is 3, 2, 1.
C4_Witness ==
  /\ last.op = "sync"
  /\ last.payload = Single(Bare("1"))
  /\ Before.order = [t \in {"article"} |-> <<"3", "1", "2">>]
  /\ FindAllSyncedIds("article") = <<"3", "2", "1">>


Elems(seq) == {seq[i] : i \in 1..Len(seq)}

\* The Model handed to the last destroy was the one registered at its (type, id).
DestroyedInStore ==
  /\ last.op = "destroy"
  /\ last.model # 0
  /\ Find(Before, Before.heap[last.model].type, Before.heap[last.model].id) = last.model

\* C5: after destroy(A) of a Model in the store, find(A.type, A.id) is null,
\* A is not in findAll(A.type), and every Model B of the store with a
\* relationship r that referenced A has r null (to-one) or without A
\* (to-many) and, unless it is A, is still found.
C5_DestroySymmetry ==
  DestroyedInStore =>
    LET a == last.model
        ta == Before.heap[a].type
        ia == Before.heap[a].id
    IN \A b \in 1..Len(Before.heap), n \in Names :
         (/\ Find(Before, Before.heap[b].type, Before.heap[b].id) = b
          /\ a \in Refs(Before.heap[b].props[n]))
         => /\ Find(Store, ta, ia) = 0
            /\ a \notin Elems(FindAll(Store, ta))
            /\ (Before.heap[b].props[n].k = "one" => heap[b].props[n] = Null)
            /\ (Before.heap[b].props[n].k = "many" =>
                  heap[b].props[n].k = "many" /\ a \notin Refs(heap[b].props[n]))
            /\ (b # a => Find(Store, Before.heap[b].type, Before.heap[b].id) = b)

\* C6: destroy(A) of a Model in the store takes exactly A out of graph and
\* order: every other (type, id) is found as the same instance, the other ids
\* keep their relative order, and no other Model is marked destroyed.
C6_DestroyOneHop ==
  DestroyedInStore =>
    LET a == last.model
        ta == Before.heap[a].type
        ia == Before.heap[a].id
    IN /\ Find(Store, ta, ia) = 0
       /\ DOMAIN order = DOMAIN Before.order
       /\ \A t \in DOMAIN Before.graph : \A i \in DOMAIN Before.graph[t] :
            (t # ta \/ i # ia) => Find(Store, t, i) = Before.graph[t][i]
       /\ \A t \in DOMAIN Before.order :
            order[t] = IF t = ta THEN SelectSeq(Before.order[t], LAMBDA x : x # ia)
                       ELSE Before.order[t]
       /\ \A r \in 1..Len(heap) : r # a => heap[r].destroyed = Before.heap[r].destroyed

\* C7: destroy(null), destroy(undefined) and destroy of a Model without id
\* raise no failure and leave graph, order and every Model as they were.
C7_DestroyNoOp ==
  (last.op = "destroy" /\ (last.model = 0 \/ Before.heap[last.model].id = NoId)) =>
    /\ ~last.threw
    /\ graph = Before.graph
    /\ order = Before.order
    /\ heap = Before.heap

\* C8: a sync of a document with an errors member leaves graph and order (and
\* every Model) as they were, and the value it returns holds the errors.
C8_ErrorShortCircuit ==
  (last.op = "sync" /\ last.payload.errors # Absent) =>
    /\ graph = Before.graph
    /\ order = Before.order
    /\ heap = Before.heap
    /\ last.ret.errors = last.payload.errors

\* A document with errors, data and included was synced into a filled store.
C8_Witness ==
  /\ last.op = "sync"
  /\ last.payload.errors # Absent
  /\ last.payload.data.k # "absent"
  /\ last.payload.included # Absent
  /\ Len(heap) > 0
  /\ last.ret.errors = last.payload.errors

C10_ResetIsolation ==
  last.op = "reset" => heap = Before.heap

\* A store whose Models had attributes, relationships and dependents has been
\* reset, and a Model it held still has them.
C10_Witness ==
  /\ last.op = "reset"
  /\ \E r \in 1..Len(heap) :
       /\ Find(Before, heap[r].type, heap[r].id) = r
       /\ Find(Store, heap[r].type, heap[r].id) = 0
       /\ heap[r].attributes # <<>>
       /\ heap[r].relationships # <<>>
       /\ heap[r].dependents # <<>>

C12_LookupsTotal ==
  /\ last.op = "find" =>
       /\ ~last.threw
       /\ graph = Before.graph /\ order = Before.order /\ heap = Before.heap
       /\ (last.type \notin DOMAIN graph => last.ret.kind = "null")
       /\ (last.type \in DOMAIN graph =>
             (last.id \notin DOMAIN graph[last.type] => last.ret.kind = "null"))
  /\ last.op = "findAll" =>
       /\ ~last.threw
       /\ graph = Before.graph /\ order = Before.order /\ heap = Before.heap
       /\ (last.type \notin DOMAIN graph => last.ret.data = <<>>)

\* find of an id that destroy took out of a type that is still in the graph.
C12_Witness ==
  /\ last.op = "find"
  /\ last.type \in DOMAIN graph
  /\ last.id \notin DOMAIN graph[last.type]
  /\ \E r \in 1..Len(heap) :
       heap[r].type = last.type /\ heap[r].id = last.id /\ heap[r].destroyed
  /\ last.ret.kind = "null"

\* C20: initModel(type, id) returns the Model that was registered at
\* (type, id), or a new one that it registers there, and leaves order[type] as
\* it was without id, followed by id; the order of other types is untouched.
C20_InitModelOrder ==
  last.op = "initModel" =>
    LET t == last.type
        i == last.id
        o0 == IF t \in DOMAIN Before.order THEN Before.order[t] ELSE <<>>
    IN /\ last.ret.kind = "model"
       /\ Find(Store, t, i) = last.ret.data[1]
       /\ IF Find(Before, t, i) # 0
          THEN last.ret.data[1] = Find(Before, t, i) /\ heap = Before.heap
          ELSE /\ last.ret.data[1] = Len(Before.heap) + 1
               /\ heap = Append(Before.heap, ModelCtor(t, i))
       /\ order[t] = Append(SelectSeq(o0, LAMBDA x : x # i), i)
       /\ Cardinality({k \in 1..Len(order[t]) : order[t][k] = i}) = 1
       /\ \A u \in DOMAIN Before.order : u # t => order[u] = Before.order[u]
       /\ DOMAIN order = DOMAIN Before.order \cup {t}

\* initModel of a registered id that was first of three moved it to the end.
C20_Witness ==
  /\ last.op = "initModel"
  /\ Find(Before, last.type, last.id) # 0
  /\ Len(Before.order[last.type]) = 3
  /\ Before.order[last.type][1] = last.id
  /\ order[last.type] = <<Before.order[last.type][2], Before.order[last.type][3], last.id>>

\* C15: a sync of a document with data and without errors returns the Models
\* of data, one for an object and one per element in the document's order
\* for an array, each the instance find returns afterwards; with the option
\* topLevel it returns an object with those Models under data and the
\* document's meta, links and jsonapi, and without it the Models themselves.
C15_SyncReturn ==
  (last.op = "sync" /\ last.payload.errors = Absent /\ last.payload.data.k # "absent") =>
    LET recs == last.payload.data.recs
    IN /\ last.ret.hasData
       /\ last.ret.isArray = (last.payload.data.k = "many")
       /\ Len(last.ret.data) = Len(recs)
       /\ \A i \in 1..Len(recs) :
            /\ last.ret.data[i] # 0
            /\ last.ret.data[i] = Find(Store, recs[i].type, recs[i].id)
       /\ IF last.topLevel
          THEN /\ last.ret.kind = "response"
               /\ last.ret.meta = last.payload.meta
               /\ last.ret.links = last.payload.links
               /\ last.ret.jsonapi = last.payload.jsonapi
               /\ last.ret.errors = Absent
          ELSE /\ last.ret.kind = IF last.payload.data.k = "many" THEN "models" ELSE "model"
               /\ last.ret.meta = Absent /\ last.ret.links = Absent
               /\ last.ret.jsonapi = Absent /\ last.ret.errors = Absent

\* sync with topLevel of an array of two records, with meta, into a store
\* that held one of them: the object returned has both Models, in order.
C15_Witness ==
  /\ last.op = "sync" /\ last.topLevel
  /\ last.payload.errors = Absent
  /\ last.payload.data.k = "many"
  /\ last.payload.meta # Absent
  /\ Before.graph # EmptyMap
  /\ last.ret.kind = "response"
  /\ Len(last.ret.data) = 2
  /\ heap[last.ret.data[1]].id = "2" /\ heap[last.ret.data[2]].id = "1"

\* C19: a sync of a document with included, without errors and without data
\* syncs every included record: find returns a Model for each, with the
\* record's attributes.
C19_IncludedOnlySync ==
  (/\ last.op = "sync" /\ last.payload.errors = Absent
   /\ last.payload.data.k = "absent" /\ last.payload.included # Absent) =>
    \A k \in 1..Len(last.payload.included[1]) :
      LET rec == last.payload.included[1][k]
          r == Find(Store, rec.type, rec.id)
      IN /\ r # 0
         /\ \A a \in 1..Len(rec.attributes) :
              heap[r].props[rec.attributes[a].name] = rec.attributes[a].value

\* The Model the last call was made on.
Self == heap[last.model]
NoDuplicates(seq) == \A i, j \in 1..Len(seq) : seq[i] = seq[j] => i = j

\* A relationship value by the (type, id) of the Models it holds.
Identifiers(hp, v) ==
  [k |-> v.k, ids |-> [i \in 1..Len(v.refs) |-> Linkage(hp[v.refs[i]].type, hp[v.refs[i]].id)]]

\* C13: for a Model m of the store, syncing m.serialize() into a new store
\* and finding (m.type, m.id) there gives a Model with m's attribute names and
\* values and with m's relationship names, each relationship null, one Model
\* or a sequence as in m and naming the same (type, id) in the same order.
C13_SerializeRoundTrip ==
  (/\ last.op = "serialize" /\ last.options = NoOptions
   /\ Find(Store, Self.type, Self.id) = last.model) =>
    LET store2 == SyncStore(StoreCtor, Single(ReadRecord(last.out)))
        r2 == Find(store2, Self.type, Self.id)
        m2 == store2.heap[r2]
    IN /\ r2 # 0
       /\ Elems(m2.attributes) = Elems(Self.attributes)
       /\ \A n \in Elems(Self.attributes) : m2.props[n] = Self.props[n]
       /\ Elems(m2.relationships) = Elems(Self.relationships)
       /\ \A n \in Elems(Self.relationships) :
            Identifiers(store2.heap, m2.props[n]) = Identifiers(heap, Self.props[n])

\* A Model of the store with an attribute, a relationship that a destroy set
\* to null and a sequence that the destroy shortened has been serialized.
C13_Witness ==
  /\ last.op = "serialize" /\ last.options = NoOptions
  /\ Find(Store, Self.type, Self.id) = last.model
  /\ Self.attributes # <<>>
  /\ \E n \in Elems(Self.relationships) : Self.props[n] = Null
  /\ \E n \in Elems(Self.relationships) :
       Self.props[n].k = "many" /\ Len(Self.props[n].refs) = 1
  /\ \E r \in 1..Len(heap) : heap[r].destroyed

\* The record of the document the last serialize follows.
FreshRecord == last.fresh[1].data.recs[1]

\* C14: a document whose data is one record with type, id, attributes and
\* relationships, each relationship with data, synced into an empty store:
\* serialize() of the resulting Model returns the document.
C14_SyncThenSerialize ==
  (/\ last.op = "serialize" /\ last.options = NoOptions
   /\ last.fresh # Absent
   /\ last.fresh[1].data.k = "one"
   /\ FreshRecord.id # NoId
   /\ FreshRecord.attributes # <<>>
   /\ FreshRecord.relationships # <<>>
   /\ \A j \in 1..Len(FreshRecord.relationships) :
        FreshRecord.relationships[j].data.k # "absent"
   /\ last.model = Find(Store, FreshRecord.type, FreshRecord.id)) =>
    last.out = WriteRecord(FreshRecord)

\* The record had an attribute, a relationship to one Model and one to a
\* sequence of two.
C14_Witness ==
  /\ last.op = "serialize" /\ last.options = NoOptions
  /\ last.fresh # Absent
  /\ Len(FreshRecord.attributes) = 1
  /\ Len(FreshRecord.relationships) = 2
  /\ Len(FreshRecord.relationships[2].data.ids) = 2
  /\ last.model = Find(Store, FreshRecord.type, FreshRecord.id)
  /\ last.out = WriteRecord(FreshRecord)

\* C16: setRelationship(name, value) on a property that holds a sequence
\* leaves the sequence as it was with value appended; on any other property
\* (unset, null or one Model) it leaves value as the property.
C16_SetRelationship ==
  last.op = "setRelationship" =>
    LET was == Before.heap[last.model].props[last.name]
        is == Self.props[last.name]
    IN IF was.k = "many"
       THEN /\ is.k = "many"
            /\ Len(is.refs) = Len(was.refs) + 1
            /\ SubSeq(is.refs, 1, Len(was.refs)) = was.refs
            /\ is.refs[Len(is.refs)] = last.value.refs[1]
       ELSE is = last.value

\* A Model was appended to a sequence of two, and the sequence has three.
C16_Witness ==
  /\ last.op = "setRelationship"
  /\ Before.heap[last.model].props[last.name].k = "many"
  /\ Len(Before.heap[last.model].props[last.name].refs) = 2
  /\ Len(Self.props[last.name].refs) = 3
  /\ Self.props[last.name].refs[3] = last.value.refs[1]

\* C17: no Model has a name twice in its list of attribute names or in its
\* list of relationship names.
C17_NoDuplicateNames ==
  \A r \in 1..Len(heap) :
    NoDuplicates(heap[r].attributes) /\ NoDuplicates(heap[r].relationships)

\* The names serialize was asked for, or the Model's own.
Selected(option, own) == IF option = Absent THEN own ELSE option[1]

\* C18: serialize(options) returns data with id exactly when the Model has
\* one, with attributes exactly when the selected list of attribute names
\* (options.attributes, or else the Model's) is not empty, its keys being
\* the selected names, and with relationships likewise.
C18_SerializeShape ==
  last.op = "serialize" =>
    LET attributes == Selected(last.options.attributes, Self.attributes)
        relationships == Selected(last.options.relationships, Self.relationships)
    IN /\ last.out.type = Self.type
       /\ (last.out.id # Absent) <=> (Self.id # NoId)
       /\ last.out.id # Absent => last.out.id = Some(Self.id)
       /\ (last.out.attributes = Absent) <=> (attributes = <<>>)
       /\ last.out.attributes # Absent =>
            LET keys == [i \in 1..Len(last.out.attributes[1]) |->
                           last.out.attributes[1][i].name]
            IN Elems(keys) = Elems(attributes) /\ NoDuplicates(keys)
       /\ (last.out.relationships = Absent) <=> (relationships = <<>>)
       /\ last.out.relationships # Absent =>
            LET keys == [i \in 1..Len(last.out.relationships[1]) |->
                           last.out.relationships[1][i].name]
            IN Elems(keys) = Elems(relationships) /\ NoDuplicates(keys)

\* A Model without id, with an attribute and two relationships, serialized
\* with an empty list of attribute names and one relationship name.
C18_Witness ==
  /\ last.op = "serialize"
  /\ Self.id = NoId /\ last.out.id = Absent
  /\ Self.attributes # <<>> /\ last.options.attributes = Some(<<>>)
  /\ last.out.attributes = Absent
  /\ Len(Self.relationships) = 2 /\ last.options.relationships = Some(<<"tags">>)
  /\ Len(last.out.relationships[1]) = 1
  /\ last.out.relationships[1][1].name = "tags"

\* The Models that are in the store: find returns them for their (type, id).
InStore(r) == Find(Store, heap[r].type, heap[r].id) = r

\* C21: every triple (type, id, relation) in the dependents of a Model A of
\* the store names a Model that find returns and whose relationship relation
\* holds A now.
C21_DependentsAccurate ==
  \A a \in 1..Len(heap) :
    InStore(a) =>
      \A k \in 1..Len(heap[a].dependents) :
        LET dependent == heap[a].dependents[k]
            d == Find(Store, dependent.type, dependent.id)
        IN /\ d # 0
           /\ a \in Refs(heap[d].props[dependent.relation])

\* C26: destroy(A) of a Model of the store whose dependents name a (type, id)
\* that find no longer returns raises no failure and takes A out of graph and
\* order.
C26_DestroySkipsStale ==
  (/\ DestroyedInStore
   /\ \E k \in 1..Len(Before.heap[last.model].dependents) :
        Find(Before, Before.heap[last.model].dependents[k].type,
                     Before.heap[last.model].dependents[k].id) = 0) =>
    /\ ~last.threw
    /\ Find(Store, heap[last.model].type, heap[last.model].id) = 0
    /\ heap[last.model].id \notin Elems(order[heap[last.model].type])

\* C27: no Model has in its dependents a triple whose id is absent.
C27_DependentsHaveId ==
  \A r \in 1..Len(heap) : \A k \in 1..Len(heap[r].dependents) :
    heap[r].dependents[k].id # NoId

\* The triples of deps that do not name (type, id), in their order.
Without(deps, type, id) ==
  SelectSeq(deps, LAMBDA x : ~(x.type = type /\ x.id = id))

\* C22: _addDependence(type, id, relation) leaves the dependents as they were
\* when they hold that triple and appends it otherwise; a sync only appends
\* to dependents; and no Model has two equal triples in its dependents.
C22_AddDependenceIdempotent ==
  /\ \A r \in 1..Len(heap) : NoDuplicates(heap[r].dependents)
  /\ last.op = "addDependence" =>
       LET was == Before.heap[last.model].dependents
           triple == [id |-> last.id, type |-> last.type, relation |-> last.name]
       IN Self.dependents = IF triple \in Elems(was) THEN was ELSE Append(was, triple)
  /\ last.op = "sync" =>
       \A r \in 1..Len(Before.heap) :
         SubSeq(heap[r].dependents, 1, Len(Before.heap[r].dependents))
           = Before.heap[r].dependents

\* _addDependence was called with a triple the Model had, next to another
\* triple of the same (type, id).
C22_Witness ==
  /\ last.op = "addDependence"
  /\ Len(Before.heap[last.model].dependents) >= 2
  /\ [id |-> last.id, type |-> last.type, relation |-> last.name]
       \in Elems(Before.heap[last.model].dependents)
  /\ Self.dependents = Before.heap[last.model].dependents

\* C23: after _removeDependence(type, id) the dependents are the triples of
\* other (type, id), in their order.
C23_RemoveDependence ==
  last.op = "removeDependence" =>
    Self.dependents = Without(Before.heap[last.model].dependents, last.type, last.id)

\* The Models of refs that are not (type, id), in their order.
WithoutModel(hp, refs, type, id) ==
  SelectSeq(refs, LAMBDA r : ~(hp[r].type = type /\ hp[r].id = id))

\* C24: after removeRelationship(type, id, name) on a Model whose relationship
\* name held a sequence, it holds the elements that are not (type, id), in
\* their order.
C24_RemoveFromSequence ==
  (last.op = "removeRelationship"
   /\ Before.heap[last.model].props[last.name].k = "many") =>
    Self.props[last.name] =
      Many(WithoutModel(heap, Before.heap[last.model].props[last.name].refs,
                        last.type, last.id))

\* C25: removeRelationship(type, id, name) on a Model whose relationship name
\* is null, one Model that is not (type, id) or a sequence without (type, id)
\* raises no failure and leaves the relationship as it was.
C25_RemoveRelationshipNoOp ==
  LET was == Before.heap[last.model].props[last.name]
  IN (/\ last.op = "removeRelationship"
      /\ was.k \in {"null", "one", "many"}
      /\ \A r \in Refs(was) :
           ~(Before.heap[r].type = last.type /\ Before.heap[r].id = last.id)) =>
       /\ ~last.threw
       /\ Self.props[last.name] = was

\* The (type, id) of the Models of refs, in their order.
TargetsOf(hp, refs) == [i \in 1..Len(refs) |-> Linkage(hp[refs[i]].type, hp[refs[i]].id)]
WithId(ids) == SelectSeq(ids, LAMBDA l : l.id # NoId)

\* C28: serialize returns (the operator recurses over the list of names and
\* never into a target), and every relationship it emits holds null, one
\* identifier or a sequence of identifiers, each with the members type and
\* id alone and naming the targets in the relationship's order.
C28_SerializeShallow ==
  (last.op = "serialize" /\ last.out.relationships # Absent) =>
    \A j \in 1..Len(last.out.relationships[1]) :
      LET e == last.out.relationships[1][j]
          v == Self.props[e.name]
      IN /\ \A i \in 1..Len(e.data.ids) : DOMAIN e.data.ids[i] = {"type", "id"}
         /\ e.data.k = IF v.k \in {"one", "many"} THEN v.k ELSE "null"
         /\ v.k = "one" => e.data.ids = TargetsOf(heap, v.refs)
         /\ v.k = "many" => WithId(e.data.ids) = WithId(TargetsOf(heap, v.refs))

\* A Model that references itself and belongs to a sequence of a Model it
\* references has been serialized.
C28_Witness ==
  /\ last.op = "serialize" /\ last.out.relationships # Absent
  /\ \E n \in Elems(Self.relationships) : Self.props[n] = One(last.model)
  /\ \E n \in Elems(Self.relationships) :
       /\ Self.props[n].k = "many"
       /\ Len(Self.props[n].refs) > 0
  /\ Len(last.out.relationships[1]) = 2

\* C29: every identifier serialize emits for a sequence has an id, and the
\* identifiers are those of the elements that have one, in their order.
C29_SerializeOmitsIdLess ==
  (last.op = "serialize" /\ last.out.relationships # Absent) =>
    \A j \in 1..Len(last.out.relationships[1]) :
      LET e == last.out.relationships[1][j]
          v == Self.props[e.name]
      IN v.k = "many" =>
           /\ \A i \in 1..Len(e.data.ids) : e.data.ids[i].id # NoId
           /\ e.data.ids = WithId(TargetsOf(heap, v.refs))

\* The keys of an object.
Keys(obj) == {pair[1] : pair \in obj}

\* What serialize is to emit of the object own when asked for the keys sel.
EmitsObject(own, sel, out) ==
  /\ own = EmptyObj => out = Absent
  /\ (own # EmptyObj /\ sel = Absent) => out = Some(own)
  /\ (own # EmptyObj /\ sel # Absent /\ sel # Some(<<>>)) =>
       /\ out # Absent
       /\ Keys(out[1]) = Elems(sel[1])
       /\ \A pair \in out[1] :
            IF pair[1] \in Keys(own) THEN pair \in own ELSE pair[2] = "undefined"

\* C30: serialize emits the Model's links whole when options.links is not
\* given, with exactly the keys asked for when it is a list that is not
\* empty, and not at all when the Model has no links; likewise meta; and it
\* raises no failure.
C30_SerializeLinksMeta ==
  last.op = "serialize" =>
    /\ ~last.threw
    /\ EmitsObject(Self.links, last.options.links, last.out.links)
    /\ EmitsObject(Self.meta, last.options.meta, last.out.meta)

\* A Model with the links self and next was asked for self and other, and for
\* its meta.
C30_Witness ==
  /\ last.op = "serialize"
  /\ Keys(Self.links) = {"self", "next"}
  /\ last.options.links = Some(<<"self", "other">>)
  /\ Keys(last.out.links[1]) = {"self", "other"}
  /\ last.options.meta = Some(<<"count">>)
  /\ last.out.meta = Some(Self.meta)

\* The number of records of the document for (type, id).
RecordsFor(records, type, id) ==
  Cardinality({k \in 1..Len(records) : records[k].type = type /\ records[k].id = id})

\* The links (meta) a Model has after a record whose member is given.
AfterMember(given, was) == IF given # Absent THEN given[1] ELSE was

\* C31: after a sync, the Model of a record that carries links has exactly
\* the record's links, and the Model of a record without links has the links
\* it had (none when it is new); likewise meta.
C31_LinksMetaReplaced ==
  last.op = "sync" =>
    \A k \in 1..Len(Records) :
      LET rec == Records[k]
          r == Find(Store, rec.type, rec.id)
          r0 == Find(Before, rec.type, rec.id)
      IN RecordsFor(Records, rec.type, rec.id) = 1 =>
           /\ heap[r].links =
                AfterMember(rec.links, IF r0 = 0 THEN EmptyObj ELSE Before.heap[r0].links)
           /\ heap[r].meta =
                AfterMember(rec.meta, IF r0 = 0 THEN EmptyObj ELSE Before.heap[r0].meta)

\* A Model with the links self and next and with meta was synced again with
\* a record that has the link self alone and no meta.
C31_Witness ==
  /\ last.op = "sync" /\ Len(Records) = 1
  /\ Records[1].links # Absent /\ Records[1].meta = Absent
  /\ LET r == Find(Store, Records[1].type, Records[1].id)
     IN /\ r <= Len(Before.heap)
        /\ Keys(Before.heap[r].links) = {"self", "next"}
        /\ Keys(heap[r].links) = {"self"}
        /\ heap[r].meta # EmptyObj
        /\ heap[r].meta = Before.heap[r].meta

\* What a store holds at (type, id), told by (type, id) and not by instance:
\* attribute and relationship names, each property with the (type, id) of the
\* Models it holds, the placeholder flag and the set of dependents.
ViewOf(st, type, id) ==
  LET r == Find(st, type, id)
  IN IF r = 0 THEN [found |-> FALSE]
     ELSE [found |-> TRUE,
           attributes |-> Elems(st.heap[r].attributes),
           relationships |-> Elems(st.heap[r].relationships),
           props |-> [n \in Names |->
                        [v |-> st.heap[r].props[n].v,
                         data |-> Identifiers(st.heap, st.heap[r].props[n])]],
           placeHolder |-> st.heap[r].placeHolder,
           dependents |-> Elems(st.heap[r].dependents)]

PairwiseDistinct(records) ==
  \A j, k \in 1..Len(records) :
    (records[j].type = records[k].type /\ records[j].id = records[k].id) => j = k

\* The last call synced a document with data and included whose records
\* have pairwise distinct (type, id).
SyncedIncludedAndData ==
  /\ last.op = "sync"
  /\ last.payload.errors = Absent
  /\ last.payload.data.k # "absent"
  /\ last.payload.included # Absent
  /\ PairwiseDistinct(Records)

\* The store had the records of data been synced before those of included.
DataBeforeIncluded ==
  SyncRecords(Before, last.payload.data.recs \o last.payload.included[1], 1)

\* C32: for a document whose included and data records have pairwise
\* distinct (type, id), the store after the sync holds at every (type, id)
\* the attributes, relationships by (type, id), placeholder flag and set of
\* dependents it would hold had data been synced before included.
C32_IncludedDataOrder ==
  SyncedIncludedAndData =>
    \A type \in Types, id \in Ids \cup {NoId} :
      ViewOf(Store, type, id) = ViewOf(DataBeforeIncluded, type, id)

\* A record of data referenced a Model that included brought into the store:
\* synced after data it would have been created as a placeholder first, as
\* another instance.
C32_Witness ==
  /\ SyncedIncludedAndData
  /\ \E k \in 1..Len(last.payload.included[1]) :
       LET rec == last.payload.included[1][k]
           r == Find(Store, rec.type, rec.id)
       IN /\ Find(Before, rec.type, rec.id) = 0
          /\ ~heap[r].placeHolder
          /\ heap[r].dependents # <<>>
          /\ heap[r].attributes # <<>>
          /\ Find(DataBeforeIncluded, rec.type, rec.id) # r

RECURSIVE SuccessiveSyncs(_, _, _)
\* The store after store.sync({data: records[k]}), then
\* store.sync({data: records[k + 1]}), and so on to the last record.
SuccessiveSyncs(st, records, k) ==
  IF k > Len(records) THEN st
  ELSE SuccessiveSyncs(SyncStore(st, Single(records[k])), records, k + 1)

\* The last call synced a document with an array as data, without included
\* and without errors.
SyncedArray ==
  /\ last.op = "sync"
  /\ last.payload.errors = Absent
  /\ last.payload.included = Absent
  /\ last.payload.data.k = "many"

\* C33: the sync of a document whose data is the array [r1..rn] (no
\* included, no errors) leaves the Models, graph and order that the syncs
\* of r1, then r2, ... then rn one by one leave.
C33_ArrayAsSuccessiveSyncs ==
  SyncedArray =>
    LET st == SuccessiveSyncs(Before, last.payload.data.recs, 1)
    IN /\ heap = st.heap
       /\ graph = st.graph
       /\ order = st.order

\* An array of three records for two ids was synced into a store that held
\* one of them: the order changed and a Model was added.
C33_Witness ==
  /\ SyncedArray
  /\ Len(last.payload.data.recs) = 3
  /\ ~PairwiseDistinct(last.payload.data.recs)
  /\ Len(Before.heap) > 0
  /\ Len(heap) > Len(Before.heap)
  /\ order # Before.order

\* C34: for every type the ids in order[type] are pairwise distinct and are
\* exactly the ids registered in graph[type].
C34_GraphOrderConsistent ==
  \A type \in Types :
    LET ids == IF type \in DOMAIN order THEN order[type] ELSE <<>>
        registered == IF type \in DOMAIN graph THEN DOMAIN graph[type] ELSE {}
    IN /\ NoDuplicates(ids)
       /\ Elems(ids) = registered

\* C35: every Model that a relationship of a Model of the store holds is
\* itself the Model find returns for its (type, id).
C35_ReferentialIntegrity ==
  \A r \in 1..Len(heap) :
    InStore(r) =>
      \A n \in Elems(heap[r].relationships) :
        \A t \in Refs(heap[r].props[n]) : InStore(t)

\* C36: a destroy(A) that follows a destroy(A) which raised no failure
\* raises none and leaves graph, order and every Model as they were.
C36_DestroyIdempotent ==
  [][(/\ last.op = "destroy" /\ last.model # 0 /\ ~last.threw
      /\ last'.op = "destroy" /\ last'.model = last.model) =>
       (/\ ~last'.threw
        /\ graph' = graph
        /\ order' = order
        /\ heap' = heap)]_vars

\* C38: no Model of the store has its destroyed flag set.
C38_NoDestroyedInStore ==
  \A r \in 1..Len(heap) : InStore(r) => ~heap[r].destroyed

\* The (type, id) pairs one record names as relationship linkage.
LinkagesOfRecord(rec) == LinkagesOf(<<rec>>)

\* The Models the last sync created as placeholders and synced no record for.
NewPlaceholders ==
  {l \in LinkagesOf(Records) :
     Find(Before, l.type, l.id) = 0 /\ ~HasRecordFor(Records, l.type, l.id)}

\* The first record of the last sync that names l as linkage.
FirstReferencing(l) ==
  Records[CHOOSE k \in 1..Len(Records) :
            /\ l \in LinkagesOfRecord(Records[k])
            /\ \A j \in 1..(k - 1) : l \notin LinkagesOfRecord(Records[j])]

\* C37: after a sync, the ids of a type that the document has no record for
\* and that were in the order stand first in it, in the order they had (being
\* named as linkage moves no id); and a placeholder the sync created stands
\* after the record that first named it, when they have the same type and
\* that record is the only one for its (type, id).
C37_LinkageKeepsPosition ==
  last.op = "sync" =>
    /\ \A type \in DOMAIN Before.order :
         LET old == SelectSeq(Before.order[type],
                              LAMBDA id : ~HasRecordFor(Records, type, id))
         IN SubSeq(order[type], 1, Len(old)) = old
    /\ \A l \in NewPlaceholders :
         LET rec == FirstReferencing(l)
         IN /\ heap[Find(Store, l.type, l.id)].placeHolder
            /\ (rec.type = l.type /\ RecordsFor(Records, rec.type, rec.id) = 1) =>
                 IndexOf(order[l.type], l.id) > IndexOf(order[l.type], rec.id)

\* The record of article 1 named article 3, the first of three in the order,
\* as its author: article 1 moved to the end and article 3 stayed first.
C37_Witness ==
  /\ last.op = "sync"
  /\ Len(Records) = 1
  /\ Records[1].type = "article" /\ Records[1].id = "1"
  /\ Linkage("article", "3") \in LinkagesOf(Records)
  /\ "article" \in DOMAIN Before.order
  /\ Before.order["article"] = <<"3", "1", "2">>
  /\ order["article"] = <<"3", "2", "1">>

\* The Model r was in the store before the last sync, and the document had
\* one record for it.
Resynced(r) ==
  /\ last.op = "sync"
  /\ r \in 1..Len(Before.heap)
  /\ Find(Before, Before.heap[r].type, Before.heap[r].id) = r
  /\ RecordsFor(Records, Before.heap[r].type, Before.heap[r].id) = 1

\* The attribute names, and the names of the relationships with data, of a record.
AttributesNamed(rec) == {rec.attributes[a].name : a \in 1..Len(rec.attributes)}
RelationshipsNamed(rec) ==
  {rec.relationships[j].name :
     j \in {x \in 1..Len(rec.relationships) : rec.relationships[x].data.k # "absent"}}

\* C39: a sync with a record for a Model of the store keeps the instance and
\* every attribute and relationship name it had; a name the record does not
\* mention keeps its value, an attribute it mentions has the record's value
\* and a relationship it mentions holds the Models of the record's linkage.
C39_ResyncMerges ==
  \A r \in 1..Len(heap) :
    Resynced(r) =>
      LET rec == LastRecordFor(Records, heap[r].type, heap[r].id)
      IN /\ Find(Store, heap[r].type, heap[r].id) = r
         /\ Elems(Before.heap[r].attributes) \subseteq Elems(heap[r].attributes)
         /\ Elems(Before.heap[r].relationships) \subseteq Elems(heap[r].relationships)
         /\ \A n \in Names \ (AttributesNamed(rec) \cup RelationshipsNamed(rec)) :
              heap[r].props[n] = Before.heap[r].props[n]
         /\ \A a \in 1..Len(rec.attributes) :
              /\ rec.attributes[a].name \in Elems(heap[r].attributes)
              /\ rec.attributes[a].name \notin RelationshipsNamed(rec) =>
                   heap[r].props[rec.attributes[a].name] = rec.attributes[a].value
         /\ \A j \in 1..Len(rec.relationships) :
              rec.relationships[j].data.k # "absent" =>
                /\ rec.relationships[j].name \in Elems(heap[r].relationships)
                /\ Identifiers(heap, heap[r].props[rec.relationships[j].name]) =
                     rec.relationships[j].data

\* A Model with an attribute and a relationship was synced again with a
\* record that has no attributes and gives the relationship another value:
\* the attribute is as it was.
C39_Witness ==
  \E r \in 1..Len(heap) :
    /\ Resynced(r)
    /\ LET rec == LastRecordFor(Records, heap[r].type, heap[r].id)
       IN /\ rec.attributes = <<>>
          /\ Before.heap[r].attributes # <<>>
          /\ \E n \in Elems(Before.heap[r].attributes) :
               heap[r].props[n] = Before.heap[r].props[n] /\ heap[r].props[n] # Undef
          /\ \E n \in RelationshipsNamed(rec) :
               /\ n \in Elems(Before.heap[r].relationships)
               /\ Identifiers(heap, heap[r].props[n]) #
                    Identifiers(Before.heap, Before.heap[r].props[n])

====
